---------------------------- MODULE Spec2Model ----------------------------
(***************************************************************************)
(* axum-postcard: the Postcard<T> extractor / response adapter             *)
(* (src/src/lib.rs).                                                        *)
(*                                                                         *)
(* A request is handled by one task: Postcard::from_request checks the     *)
(* Content-Type, buffers the body, decodes it with postcard::from_bytes    *)
(* and hands the value to the handler, or rejects with a PostcardRejection *)
(* that PostcardRejection::into_response turns into a response.  A value   *)
(* the handler returns is encoded by Postcard::into_response.              *)
(*                                                                         *)
(* Text is modelled as a sequence of lexical tokens (a name, or one of the *)
(* delimiters "/", "+", ";", " ", "="), bytes as numbers 0..255.           *)
(***************************************************************************)
EXTENDS Integers, Sequences, FiniteSets, TLC

VARIABLES tasks, log

vars == <<tasks, log>>

(***************************************************************************)
(* Bounds of the model.                                                    *)
(***************************************************************************)
\* longest request body, in bytes
MaxBodyLen == 3
\* number of requests handled concurrently (specification SpecConc)
MaxTasks == 2

(***************************************************************************)
(* HTTP status codes used by the adapter.                                  *)
(***************************************************************************)
OK == 200
BAD_REQUEST == 400
UNSUPPORTED_MEDIA_TYPE == 415
INTERNAL_SERVER_ERROR == 500

(***************************************************************************)
(* Header values.  A value is opaque bytes (not visible ASCII, to_str      *)
(* fails) or text, a sequence of tokens.                                   *)
(***************************************************************************)
Names == {"application", "Application", "text", "postcard", "json",
          "cloudevents", "charset", "utf-8"}

Text(toks) == [kind |-> "text", toks |-> toks]

Opaque == [kind |-> "opaque", toks |-> <<>>]

\* str::to_ascii_lowercase on a name of the alphabet
Lower(tok) == IF tok = "Application" THEN "application" ELSE tok

LowerAll(toks) == [i \in 1..Len(toks) |-> Lower(toks[i])]

\* mime's token characters: every character of a name, and '+'
is_token(tok) == tok \in Names \/ tok = "+"

(***************************************************************************)
(* mime::Mime::from_str, as called at lib.rs:159.  The result is           *)
(* [ok, type, subtype, suffix]: subtype is the text between '/' and the    *)
(* last '+' (or the end of the subtype), suffix the text after that '+'.   *)
(***************************************************************************)
MimeErr == [ok |-> FALSE, type |-> <<>>, subtype |-> <<>>, suffix |-> <<>>,
            hasSuffix |-> FALSE]

\* index of the first token at or after i that is not a token character,
\* Len(s) + 1 when there is none
RECURSIVE SkipTokens(_, _)
SkipTokens(s, i) ==
    IF i > Len(s) THEN i
    ELSE IF is_token(s[i]) THEN SkipTokens(s, i + 1)
    ELSE i

\* index of the last '+' in s[from..to] that is not at from, 0 when none
RECURSIVE LastPlus(_, _, _)
LastPlus(s, from, to) ==
    IF to <= from THEN 0
    ELSE IF s[to] = "+" THEN to
    ELSE LastPlus(s, from, to - 1)

\* params_from_str: the parameters that start at index start of s
\* ('name=value' separated by ';', a space allowed before a name)
RECURSIVE params_from_str(_, _)
params_from_str(s, start) ==
    IF start > Len(s) THEN TRUE
    ELSE IF s[start] = " " THEN params_from_str(s, start + 1)
    ELSE LET eq == SkipTokens(s, start)
         IN  IF eq > Len(s) THEN FALSE                 \* MissingEqual
             ELSE IF ~(s[eq] = "=" /\ eq > start) THEN FALSE  \* InvalidToken
             ELSE LET end == SkipTokens(s, eq + 1)
                  IN  IF end > Len(s) THEN TRUE
                      ELSE IF s[end] = ";" /\ end > eq + 1
                           THEN params_from_str(s, end + 1)
                      ELSE FALSE                       \* InvalidToken

mime_parse(s) ==
    LET slash == SkipTokens(s, 1)
    IN  IF slash > Len(s) THEN MimeErr                          \* MissingSlash
        ELSE IF ~(s[slash] = "/" /\ slash > 1) THEN MimeErr     \* InvalidToken
        ELSE
        LET start == slash + 1
            stop  == SkipTokens(s, start)
            plus  == LastPlus(s, start, stop - 1)
            src   == LowerAll(s)
            mime  == [ok |-> TRUE,
                      type |-> SubSeq(src, 1, slash - 1),
                      subtype |-> IF plus = 0 THEN SubSeq(src, start, stop - 1)
                                  ELSE SubSeq(src, start, plus - 1),
                      suffix |-> IF plus = 0 THEN <<>>
                                 ELSE SubSeq(src, plus + 1, stop - 1),
                      hasSuffix |-> plus # 0]
        IN  IF stop > Len(s) THEN mime
            ELSE IF ~(s[stop] = ";" /\ stop > start) THEN MimeErr  \* InvalidToken
            ELSE IF params_from_str(s, stop + 1) THEN mime
            ELSE MimeErr


(***************************************************************************)
(* postcard_content_type (lib.rs:146-169).  headers is the sequence of the *)
(* request's Content-Type values, in order; HeaderMap::get is the first.   *)
(***************************************************************************)
\* faulty variant: the top-level type is not compared
postcard_content_type_AnyType(headers) ==
    IF headers = <<>> THEN FALSE
    ELSE LET content_type == headers[1]
         IN  IF content_type.kind # "text" THEN FALSE
             ELSE LET mime == mime_parse(content_type.toks)
                  IN  IF ~mime.ok THEN FALSE
                      ELSE mime.subtype = <<"postcard">>
                           \/ (mime.hasSuffix /\ mime.suffix = <<"postcard">>)

postcard_content_type(headers) ==
    IF headers = <<>> THEN FALSE
    ELSE LET content_type == headers[1]
         IN  IF content_type.kind # "text" THEN FALSE
             ELSE LET mime == mime_parse(content_type.toks)
                  IN  IF ~mime.ok THEN FALSE
                      ELSE mime.type = <<"application">>
                           /\ (mime.subtype = <<"postcard">>
                               \/ (mime.hasSuffix /\ mime.suffix = <<"postcard">>))

(***************************************************************************)
(* The postcard codec, for the target types String and bool.               *)
(* A value is [ty, s, b]: a String holds its bytes s, a bool holds b.      *)
(* UnsizedSeq is a value whose Serialize impl reports a sequence of        *)
(* unknown length, which postcard cannot encode.                           *)
(***************************************************************************)
\* 128 is a continuation byte (of a varint, of UTF-8), 195 a UTF-8 lead byte
Bytes == {0, 1, 2, 128, 195}

StringValue(s) == [ty |-> "String", s |-> s, b |-> FALSE]

BoolValue(b) == [ty |-> "bool", s |-> <<>>, b |-> b]

UnsizedSeq == [ty |-> "UnsizedSeq", s |-> <<>>, b |-> FALSE]

Targets == {"String", "bool"}

CodecOk(v) == [ok |-> TRUE, value |-> v, err |-> "none"]

NoValue == [ty |-> "none", s |-> <<>>, b |-> FALSE]

CodecErr(e) == [ok |-> FALSE, value |-> NoValue, err |-> e]

\* postcard's varint of a usize (64 bit: at most 10 bytes, the last <= 1).
\* [err, val, next]: next is the index after the varint.
RECURSIVE try_take_varint(_, _, _, _)
try_take_varint(bytes, pos, i, acc) ==
    IF i >= 10 THEN [err |-> "DeserializeBadVarint", val |-> 0, next |-> pos]
    ELSE IF pos > Len(bytes)
         THEN [err |-> "DeserializeUnexpectedEnd", val |-> 0, next |-> pos]
    ELSE LET byte == bytes[pos]
             val  == acc + (byte % 128) * (128 ^ i)
         IN  IF byte < 128
             THEN IF i = 9 /\ byte > 1
                  THEN [err |-> "DeserializeBadVarint", val |-> 0, next |-> pos]
                  ELSE [err |-> "none", val |-> val, next |-> pos + 1]
             ELSE try_take_varint(bytes, pos + 1, i + 1, val)

\* core::str::from_utf8 on one- and two-byte sequences
RECURSIVE from_utf8(_)
from_utf8(s) ==
    IF s = <<>> THEN TRUE
    ELSE IF s[1] < 128 THEN from_utf8(Tail(s))
    ELSE IF s[1] >= 194 /\ s[1] <= 223 /\ Len(s) >= 2
            /\ s[2] >= 128 /\ s[2] <= 191
         THEN from_utf8(Tail(Tail(s)))
    ELSE FALSE

\* postcard::from_bytes::<T>: bytes after the value are ignored
from_bytes(bytes, target) ==
    IF target = "bool"
    THEN IF bytes = <<>> THEN CodecErr("DeserializeUnexpectedEnd")
         ELSE IF bytes[1] = 0 THEN CodecOk(BoolValue(FALSE))
         ELSE IF bytes[1] = 1 THEN CodecOk(BoolValue(TRUE))
         ELSE CodecErr("DeserializeBadBool")
    ELSE LET len == try_take_varint(bytes, 1, 0, 0)
         IN  IF len.err # "none" THEN CodecErr(len.err)
             ELSE IF len.next + len.val - 1 > Len(bytes)
                  THEN CodecErr("DeserializeUnexpectedEnd")
             ELSE LET s == SubSeq(bytes, len.next, len.next + len.val - 1)
                  IN  IF from_utf8(s) THEN CodecOk(StringValue(s))
                      ELSE CodecErr("DeserializeBadUtf8")

RECURSIVE varint(_)
varint(n) == IF n < 128 THEN <<n>> ELSE <<128 + (n % 128)>> \o varint(n \div 128)

\* postcard::to_allocvec: [ok, bytes, err]
to_allocvec(v) ==
    IF v.ty = "String"
    THEN [ok |-> TRUE, bytes |-> varint(Len(v.s)) \o v.s, err |-> "none"]
    ELSE IF v.ty = "bool"
    THEN [ok |-> TRUE, bytes |-> IF v.b THEN <<1>> ELSE <<0>>, err |-> "none"]
    ELSE [ok |-> FALSE, bytes |-> <<>>, err |-> "SerializeSeqLengthUnknown"]

\* <postcard::Error as Display>::fmt
ErrorMessage(err) ==
    CASE err = "DeserializeUnexpectedEnd" ->
             "Hit the end of buffer, expected more data"
      [] err = "DeserializeBadVarint" ->
             "Found a varint that didn't terminate. Is the usize too big for this platform?"
      [] err = "DeserializeBadBool" -> "Found a bool that wasn't 0 or 1"
      [] err = "DeserializeBadUtf8" -> "Tried to parse invalid utf-8"
      [] err = "SerializeSeqLengthUnknown" ->
             "The length of a sequence must be known"
      [] OTHER -> "The original data was not well encoded"

(***************************************************************************)
(* PostcardRejection (lib.rs:99-107) and the responses.                    *)
(* A rejection is [variant, err]: err is the postcard::Error of a          *)
(* PostcardError, the BytesRejection of a Bytes.                           *)
(***************************************************************************)
MissingPostcardContentType ==
    [variant |-> "MissingPostcardContentType", err |-> "none"]

PostcardError(err) == [variant |-> "PostcardError", err |-> err]

BytesRejection(kind) == [variant |-> "Bytes", err |-> kind]

NoRejection == [variant |-> "none", err |-> "none"]

BytesRejectionKinds == {"LengthLimitError", "UnknownBodyError"}

\* the status axum's own IntoResponse gives a BytesRejection
BytesRejectionStatus(kind) ==
    IF kind = "LengthLimitError" THEN 413 ELSE BAD_REQUEST

\* <PostcardRejection as Display>::fmt, derived by thiserror (the back
\* quotes of the first message are written as ')
to_string(rejection) ==
    CASE rejection.variant = "MissingPostcardContentType" ->
             "Expected request with 'Content-Type: application/postcard'"
      [] rejection.variant = "PostcardError" -> ErrorMessage(rejection.err)
      [] OTHER -> "Failed to buffer the request body"

TextPlain == Text(<<"text", "/", "plain", ";", " ", "charset", "=", "utf-8">>)

ApplicationPostcard == Text(<<"application", "/", "postcard">>)

NoResponse == [status |-> 0, content_type |-> <<>>, text |-> "", bytes |-> <<>>]

\* (StatusCode, String)::into_response
TextResponse(status, text) ==
    [status |-> status, content_type |-> <<TextPlain>>, text |-> text,
     bytes |-> <<>>]

\* faulty variant: a Bytes rejection answers with its own status
PostcardRejection_into_response_PassThrough(rejection) ==
    CASE rejection.variant = "MissingPostcardContentType" ->
             TextResponse(UNSUPPORTED_MEDIA_TYPE, to_string(rejection))
      [] rejection.variant = "PostcardError" ->
             TextResponse(BAD_REQUEST, ErrorMessage(rejection.err))
      [] OTHER ->
             TextResponse(BytesRejectionStatus(rejection.err), to_string(rejection))

\* faulty variant: a PostcardError answers with a message of the adapter's own
PostcardRejection_into_response_OwnMessage(rejection) ==
    CASE rejection.variant = "MissingPostcardContentType" ->
             TextResponse(UNSUPPORTED_MEDIA_TYPE, to_string(rejection))
      [] rejection.variant = "PostcardError" ->
             TextResponse(BAD_REQUEST, "Failed to deserialize the request body")
      [] OTHER -> TextResponse(INTERNAL_SERVER_ERROR, to_string(rejection))

\* faulty variant: the two client errors are swapped
PostcardRejection_into_response_Swapped(rejection) ==
    CASE rejection.variant = "MissingPostcardContentType" ->
             TextResponse(BAD_REQUEST, to_string(rejection))
      [] rejection.variant = "PostcardError" ->
             TextResponse(UNSUPPORTED_MEDIA_TYPE, ErrorMessage(rejection.err))
      [] OTHER -> TextResponse(INTERNAL_SERVER_ERROR, to_string(rejection))

\* <PostcardRejection as IntoResponse>::into_response
PostcardRejection_into_response(rejection) ==
    CASE rejection.variant = "MissingPostcardContentType" ->
             TextResponse(UNSUPPORTED_MEDIA_TYPE, to_string(rejection))
      [] rejection.variant = "PostcardError" ->
             TextResponse(BAD_REQUEST, ErrorMessage(rejection.err))
      [] OTHER -> TextResponse(INTERNAL_SERVER_ERROR, to_string(rejection))

\* <Postcard<T> as IntoResponse>::into_response
Postcard_into_response(value) ==
    LET enc == to_allocvec(value)
    IN  IF enc.ok
        THEN [status |-> OK, content_type |-> <<ApplicationPostcard>>,
              text |-> "", bytes |-> enc.bytes]
        ELSE TextResponse(INTERNAL_SERVER_ERROR, ErrorMessage(enc.err))

(***************************************************************************)
(* The requests.  A request is [headers, body, target]: headers the        *)
(* Content-Type values, body the stream ([data, fault]: the bytes it       *)
(* yields, or the fault that ends it while it is buffered), target the     *)
(* type T of the handler the request is routed to.                         *)
(***************************************************************************)
TopLevels == {<<"application">>, <<"Application">>, <<"text">>}

Subtypes == {<<"postcard">>, <<"json">>, <<"cloudevents", "+", "postcard">>,
             <<"postcard", "+", "json">>, <<"cloudevents", "+", "json">>,
             <<"+", "postcard">>,
             <<"cloudevents", "+", "json", "+", "postcard">>, <<>>}

\* well-formed parameter lists
Params == {<<>>, <<";", "charset", "=", "utf-8">>,
           <<";", " ", "charset", "=", "utf-8">>, <<";">>}

\* malformed tails
BadParams == {<<";", "charset">>, <<" ", ";", "charset", "=", "utf-8">>}

HeaderValues ==
    {Text(t \o <<"/">> \o st \o p) :
        t \in TopLevels \ {<<"Application">>}, st \in Subtypes, p \in Params}
    \cup {Text(<<"application", "/">> \o st \o p) :
             st \in Subtypes, p \in BadParams}
    \cup {Text(<<"Application", "/">> \o st) : st \in Subtypes}
    \cup {Text(<<>>), Text(<<"postcard">>), Text(<<"/", "postcard">>),
          Text(<<"application", "postcard">>), Opaque}

HeaderMaps ==
    {<<>>} \cup {<<v>> : v \in HeaderValues}
    \cup {<<ApplicationPostcard, Text(<<"text", "/", "json">>)>>,
          <<Text(<<"text", "/", "json">>), ApplicationPostcard>>,
          <<Opaque, ApplicationPostcard>>}

RECURSIVE SeqsUpTo(_, _)
SeqsUpTo(S, n) ==
    IF n = 0 THEN {<<>>}
    ELSE LET shorter == SeqsUpTo(S, n - 1)
         IN  shorter \cup {Append(s, x) : s \in shorter, x \in S}

Bodies ==
    {[data |-> d, fault |-> "none"] : d \in SeqsUpTo(Bytes, MaxBodyLen)}
    \cup {[data |-> <<>>, fault |-> k] : k \in BytesRejectionKinds}

Requests ==
    {[headers |-> h, body |-> b, target |-> ty] :
        h \in HeaderMaps, b \in Bodies, ty \in Targets}

\* the requests of the concurrent specification
ConcRequests ==
    {[headers |-> <<ApplicationPostcard>>,
      body |-> [data |-> <<1, 1>>, fault |-> "none"], target |-> "String"],
     [headers |-> <<ApplicationPostcard>>,
      body |-> [data |-> <<2, 1>>, fault |-> "none"], target |-> "String"],
     [headers |-> <<Text(<<"text", "/", "postcard">>)>>,
      body |-> [data |-> <<1, 1>>, fault |-> "none"], target |-> "String"],
     [headers |-> <<ApplicationPostcard>>,
      body |-> [data |-> <<>>, fault |-> "LengthLimitError"],
      target |-> "String"]}

NoRequest ==
    [headers |-> <<>>, body |-> [data |-> <<>>, fault |-> "none"],
     target |-> "String"]

(***************************************************************************)
(* The tasks.  One task handles one request at a time; pc is the place     *)
(* the task has reached.                                                   *)
(***************************************************************************)
Idle ==
    [pc |-> "idle", req |-> NoRequest, bytes |-> <<>>, extracted |-> NoValue,
     rejection |-> NoRejection, handlerRan |-> FALSE, ret |-> NoValue,
     response |-> NoResponse]

Init == tasks = [t \in {1} |-> Idle] /\ log = {}

InitConc == tasks = [t \in 1..MaxTasks |-> Idle] /\ log = {}

\* the framework calls from_request with a request (lib.rs:131)
Arrive(t) ==
    /\ tasks[t].pc = "idle"
    /\ \E req \in Requests :
          tasks' = [tasks EXCEPT ![t] = [Idle EXCEPT !.pc = "from_request",
                                                     !.req = req]]
    /\ UNCHANGED log

ArriveConc(t) ==
    /\ tasks[t].pc = "idle"
    /\ \E req \in ConcRequests :
          tasks' = [tasks EXCEPT ![t] = [Idle EXCEPT !.pc = "from_request",
                                                     !.req = req]]
    /\ UNCHANGED log

\* faulty variant: the Content-Type is not looked at
CheckContentType_Skipped(t) ==
    /\ tasks[t].pc = "from_request"
    /\ tasks' = [tasks EXCEPT ![t].pc = "buffering"]
    /\ UNCHANGED log

\* if postcard_content_type(req.headers()) ... else Err(Missing...)
CheckContentType(t) ==
    /\ tasks[t].pc = "from_request"
    /\ IF postcard_content_type(tasks[t].req.headers)
       THEN tasks' = [tasks EXCEPT ![t].pc = "buffering"]
       ELSE tasks' = [tasks EXCEPT ![t].pc = "rejected",
                                   ![t].rejection = MissingPostcardContentType]
    /\ UNCHANGED log

\* let bytes = Bytes::from_request(req, state).await?;
BufferBody(t) ==
    /\ tasks[t].pc = "buffering"
    /\ LET body == tasks[t].req.body
       IN  IF body.fault = "none"
           THEN tasks' = [tasks EXCEPT ![t].pc = "decode",
                                       ![t].bytes = body.data]
           ELSE tasks' = [tasks EXCEPT ![t].pc = "rejected",
                                       ![t].rejection = BytesRejection(body.fault)]
    /\ UNCHANGED log

\* faulty variant: one buffer shared by the tasks
BufferedBytes_Shared(t) ==
    tasks[CHOOSE u \in DOMAIN tasks :
             /\ tasks[u].pc = "decode"
             /\ \A w \in DOMAIN tasks : tasks[w].pc = "decode" => u <= w].bytes

\* &*bytes: the buffer the task decodes
BufferedBytes(t) == tasks[t].bytes

\* match from_bytes(&*bytes) { Ok(value) => ..., Err(err) => return Err(..) }
Decode(t) ==
    /\ tasks[t].pc = "decode"
    /\ LET res == from_bytes(BufferedBytes(t), tasks[t].req.target)
       IN  IF res.ok
           THEN tasks' = [tasks EXCEPT ![t].pc = "extracted",
                                       ![t].extracted = res.value]
           ELSE tasks' = [tasks EXCEPT ![t].pc = "rejected",
                                       ![t].rejection = PostcardError(res.err)]
    /\ UNCHANGED log

\* the framework answers a rejected request with the rejection's response
RejectionIntoResponse(t) ==
    /\ tasks[t].pc = "rejected"
    /\ tasks' = [tasks EXCEPT
                   ![t].pc = "responded",
                   ![t].response = PostcardRejection_into_response(tasks[t].rejection)]
    /\ UNCHANGED log

\* the handler runs on the extracted value and returns a Postcard: the value
\* echoed, or one that cannot be encoded
Handler(t) ==
    /\ tasks[t].pc = "extracted"
    /\ \E v \in {tasks[t].extracted, UnsizedSeq} :
          tasks' = [tasks EXCEPT ![t].pc = "returned",
                                 ![t].handlerRan = TRUE,
                                 ![t].ret = v]
    /\ UNCHANGED log

\* the framework answers with the returned Postcard's response
PostcardIntoResponse(t) ==
    /\ tasks[t].pc = "returned"
    /\ tasks' = [tasks EXCEPT
                   ![t].pc = "responded",
                   ![t].response = Postcard_into_response(tasks[t].ret)]
    /\ UNCHANGED log

\* the response is sent and the task ends
Complete(t) ==
    /\ tasks[t].pc = "responded"
    /\ tasks' = [tasks EXCEPT ![t] = Idle]
    /\ UNCHANGED log

\* what a finished task did: the extraction's outcome for its request, and
\* the response conversion's outcome for the value the handler returned
ExtractionRecord(t) ==
    [kind |-> "extraction", req |-> tasks[t].req, value |-> NoValue,
     extracted |-> tasks[t].extracted, rejection |-> tasks[t].rejection,
     response |-> IF tasks[t].handlerRan THEN NoResponse ELSE tasks[t].response]

ConversionRecord(t) ==
    [kind |-> "conversion", req |-> NoRequest, value |-> tasks[t].ret,
     extracted |-> NoValue, rejection |-> NoRejection,
     response |-> tasks[t].response]

\* Complete, with the outcomes written to the history
CompleteAndRecord(t) ==
    /\ tasks[t].pc = "responded"
    /\ tasks' = [tasks EXCEPT ![t] = Idle]
    /\ log' = log \cup {ExtractionRecord(t)}
                  \cup (IF tasks[t].handlerRan THEN {ConversionRecord(t)} ELSE {})

Next ==
    \/ \E t \in DOMAIN tasks : Arrive(t)
    \/ \E t \in DOMAIN tasks : CheckContentType(t)
    \/ \E t \in DOMAIN tasks : BufferBody(t)
    \/ \E t \in DOMAIN tasks : Decode(t)
    \/ \E t \in DOMAIN tasks : RejectionIntoResponse(t)
    \/ \E t \in DOMAIN tasks : Handler(t)
    \/ \E t \in DOMAIN tasks : PostcardIntoResponse(t)
    \/ \E t \in DOMAIN tasks : Complete(t)

NextConc ==
    \/ \E t \in DOMAIN tasks : ArriveConc(t)
    \/ \E t \in DOMAIN tasks : CheckContentType(t)
    \/ \E t \in DOMAIN tasks : BufferBody(t)
    \/ \E t \in DOMAIN tasks : Decode(t)
    \/ \E t \in DOMAIN tasks : RejectionIntoResponse(t)
    \/ \E t \in DOMAIN tasks : Handler(t)
    \/ \E t \in DOMAIN tasks : PostcardIntoResponse(t)
    \/ \E t \in DOMAIN tasks : CompleteAndRecord(t)

Spec == Init /\ [][Next]_vars

SpecConc == InitConc /\ [][NextConc]_vars

(***************************************************************************)
(* Properties.                                                             *)
(***************************************************************************)
\* from_request has returned for task t
Extracted(t) == tasks[t].pc \in {"extracted", "returned"} \/ tasks[t].handlerRan

Rejected(t) == tasks[t].rejection # NoRejection

Returned(t) == Extracted(t) \/ Rejected(t)

Accepted(t) == postcard_content_type(tasks[t].req.headers)

\* what the codec makes of the body the request carries
Decoded(t) == from_bytes(tasks[t].req.body.data, tasks[t].req.target)

Buffers(t) == tasks[t].req.body.fault = "none"

RejectionVariants == {"MissingPostcardContentType", "PostcardError", "Bytes"}

(* C1: extraction succeeds exactly when the Content-Type is accepted, the  *)
(* body is buffered and the codec decodes it; the handler then gets the    *)
(* decoded value; otherwise the request is rejected with a                 *)
(* PostcardRejection and the handler never runs.                           *)
C1_ExtractionIff ==
    \A t \in DOMAIN tasks :
       /\ Returned(t) =>
            (Extracted(t) <=> (Accepted(t) /\ Buffers(t) /\ Decoded(t).ok))
       /\ Extracted(t) =>
            /\ tasks[t].extracted = Decoded(t).value
            /\ tasks[t].rejection = NoRejection
       /\ Rejected(t) =>
            /\ tasks[t].rejection.variant \in RejectionVariants
            /\ ~tasks[t].handlerRan
            /\ tasks[t].extracted = NoValue
       /\ tasks[t].handlerRan =>
            (Accepted(t) /\ Buffers(t) /\ Decoded(t).ok)

C1_Witness ==
    \E t \in DOMAIN tasks :
       /\ tasks[t].handlerRan
       /\ tasks[t].req.target = "String"
       /\ tasks[t].extracted = StringValue(<<1, 1>>)
       /\ tasks[t].req.body.data = <<2, 1, 1>>

(* C2: a request whose Content-Type is not accepted is rejected with       *)
(* MissingPostcardContentType and answered 415, whatever its body.         *)
C2_MissingContentType415 ==
    \A t \in DOMAIN tasks :
       (Returned(t) /\ ~Accepted(t)) =>
          /\ tasks[t].rejection = MissingPostcardContentType
          /\ tasks[t].pc = "responded" =>
                tasks[t].response.status = UNSUPPORTED_MEDIA_TYPE

C2_Witness ==
    \E t \in DOMAIN tasks :
       /\ tasks[t].pc = "responded"
       /\ ~Accepted(t)
       /\ tasks[t].req.headers # <<>>
       /\ Buffers(t) /\ Decoded(t).ok
       /\ tasks[t].response.status = UNSUPPORTED_MEDIA_TYPE

\* The media type a header value spells, read off its tokens: the tokens
\* before the first ';' are type '/' subtype, the rest are parameters.
IsTchars(s) == \A k \in 1..Len(s) : s[k] \in Names \cup {"+"}

FirstIndex(s, tok) ==
    IF \E k \in 1..Len(s) : s[k] = tok
    THEN CHOOSE k \in 1..Len(s) : s[k] = tok /\ \A j \in 1..(k - 1) : s[j] # tok
    ELSE Len(s) + 1

RECURSIVE StripSpaces(_)
StripSpaces(s) ==
    IF s # <<>> /\ s[1] = " " THEN StripSpaces(Tail(s)) ELSE s

\* name '=' value; the value may be empty only where mayBeEmpty
IsParam(p, mayBeEmpty) ==
    \E e \in 2..Len(p) :
       /\ p[e] = "="
       /\ IsTchars(SubSeq(p, 1, e - 1))
       /\ IsTchars(SubSeq(p, e + 1, Len(p)))
       /\ (mayBeEmpty \/ e < Len(p))

\* a well-formed parameter list: parameters separated by ';', spaces
\* allowed before a name, nothing needed after the last ';'
RECURSIVE IsParamList(_)
IsParamList(s) ==
    LET r == StripSpaces(s)
        semi == FirstIndex(r, ";")
    IN  \/ r = <<>>
        \/ /\ semi > Len(r)
           /\ IsParam(r, TRUE)
        \/ /\ semi <= Len(r)
           /\ IsParam(SubSeq(r, 1, semi - 1), FALSE)
           /\ IsParamList(SubSeq(r, semi + 1, Len(r)))

\* the essence type/subtype and the parameters of a text value
Essence(toks) == SubSeq(toks, 1, FirstIndex(toks, ";") - 1)

ParamsOf(toks) == SubSeq(toks, FirstIndex(toks, ";") + 1, Len(toks))

IsMediaType(toks) ==
    LET e == Essence(toks)
        slash == FirstIndex(e, "/")
    IN  /\ slash > 1 /\ slash <= Len(e)
        /\ IsTchars(SubSeq(e, 1, slash - 1))
        /\ IsTchars(SubSeq(e, slash + 1, Len(e)))
        /\ slash < Len(e)
        /\ IsParamList(ParamsOf(toks))

TopLevelOf(toks) ==
    LowerAll(SubSeq(Essence(toks), 1, FirstIndex(Essence(toks), "/") - 1))

SubtypeOf(toks) ==
    LowerAll(SubSeq(Essence(toks), FirstIndex(Essence(toks), "/") + 1,
                    Len(Essence(toks))))

\* the subtype is "postcard", or it is base '+' ... '+' "postcard"
IsPostcardSubtype(sub) ==
    \/ sub = <<"postcard">>
    \/ /\ Len(sub) >= 3
       /\ sub[Len(sub)] = "postcard"
       /\ sub[Len(sub) - 1] = "+"
    \/ /\ Len(sub) >= 2
       /\ sub[1] = "postcard"
       /\ sub[2] = "+"
       /\ \A k \in 3..Len(sub) : sub[k] # "+"

IsPostcardHeader(headers) ==
    /\ headers # <<>>
    /\ headers[1].kind = "text"
    /\ IsMediaType(headers[1].toks)
    /\ TopLevelOf(headers[1].toks) = <<"application">>
    /\ IsPostcardSubtype(SubtypeOf(headers[1].toks))

\* the header with the parameters of its first value taken away
WithoutParams(headers) ==
    <<Text(Essence(headers[1].toks))>> \o Tail(headers)

(* C3: postcard_content_type is true exactly when a Content-Type is        *)
(* present, is text that parses as a media type, has the top-level type    *)
(* application and the subtype or the suffix postcard; well-formed         *)
(* parameters do not change the result.                                    *)
C3_ContentTypePredicate ==
    \A t \in DOMAIN tasks :
       Returned(t) =>
          /\ (tasks[t].rejection # MissingPostcardContentType)
                <=> IsPostcardHeader(tasks[t].req.headers)
          /\ LET h == tasks[t].req.headers
             IN  (h # <<>> /\ h[1].kind = "text" /\ IsMediaType(h[1].toks)) =>
                    ((tasks[t].rejection # MissingPostcardContentType)
                        <=> postcard_content_type(WithoutParams(h)))

C3_Witness ==
    \E t \in DOMAIN tasks :
       /\ Returned(t)
       /\ tasks[t].rejection # MissingPostcardContentType
       /\ tasks[t].req.headers =
             <<Text(<<"application", "/", "cloudevents", "+", "postcard",
                      ";", " ", "charset", "=", "utf-8">>)>>

(* C4: an accepted, buffered body the codec cannot decode is rejected with *)
(* PostcardError and answered 400 with the codec error's message as body.  *)
C4_DecodeError400 ==
    \A t \in DOMAIN tasks :
       (Returned(t) /\ Accepted(t) /\ Buffers(t) /\ ~Decoded(t).ok) =>
          /\ tasks[t].rejection = PostcardError(Decoded(t).err)
          /\ tasks[t].pc = "responded" =>
                /\ tasks[t].response.status = BAD_REQUEST
                /\ tasks[t].response.text = ErrorMessage(Decoded(t).err)
                /\ tasks[t].response.bytes = <<>>

C4_Witness ==
    \E t \in DOMAIN tasks :
       /\ tasks[t].pc = "responded"
       /\ Accepted(t)
       /\ tasks[t].req.target = "String"
       /\ tasks[t].req.body.data = <<2, 1>>
       /\ tasks[t].response.status = BAD_REQUEST
       /\ tasks[t].response.text = "Hit the end of buffer, expected more data"

(* C5: a rejection is answered 415 (MissingPostcardContentType), 400       *)
(* (PostcardError) or 500 (Bytes, whatever status the buffering rejection  *)
(* carries), and never with a 2xx status.                                  *)
C5_ThreeStatuses ==
    \A t \in DOMAIN tasks :
       (tasks[t].pc = "responded" /\ Rejected(t)) =>
          LET r == tasks[t].rejection
              st == tasks[t].response.status
          IN  /\ r.variant = "MissingPostcardContentType"
                    => st = UNSUPPORTED_MEDIA_TYPE
              /\ r.variant = "PostcardError" => st = BAD_REQUEST
              /\ r.variant = "Bytes" => st = INTERNAL_SERVER_ERROR
              /\ st \in {UNSUPPORTED_MEDIA_TYPE, BAD_REQUEST, INTERNAL_SERVER_ERROR}
              /\ ~(st >= 200 /\ st <= 299)

C5_Witness ==
    \E t \in DOMAIN tasks :
       /\ tasks[t].pc = "responded"
       /\ tasks[t].rejection = BytesRejection("LengthLimitError")
       /\ BytesRejectionStatus(tasks[t].rejection.err) # INTERNAL_SERVER_ERROR
       /\ tasks[t].response.status = INTERNAL_SERVER_ERROR

(* C6: under any interleaving of the tasks, every extraction of the same   *)
(* request and every response conversion of the same value, earlier, later *)
(* or concurrent, has the same outcome.                                    *)
C6_Deterministic ==
    /\ \A a, b \in log :
          (a.kind = b.kind /\ a.req = b.req /\ a.value = b.value) => a = b
    /\ \A t, u \in DOMAIN tasks :
          (tasks[t].pc = "responded" /\ tasks[u].pc = "responded") =>
             /\ tasks[t].req = tasks[u].req =>
                   ExtractionRecord(t) = ExtractionRecord(u)
             /\ (tasks[t].handlerRan /\ tasks[u].handlerRan
                    /\ tasks[t].ret = tasks[u].ret) =>
                   tasks[t].response = tasks[u].response

C6_Witness ==
    \E t, u \in DOMAIN tasks :
       /\ t # u
       /\ tasks[t].pc = "responded" /\ tasks[t].handlerRan
       /\ tasks[u].pc = "responded" /\ Rejected(u)
       /\ \E a, b \in log :
             /\ a.kind = "extraction" /\ a.req = tasks[t].req
             /\ b.kind = "extraction" /\ b.req = tasks[u].req

=============================================================================
